---- MODULE Spec2Model ----
(***************************************************************************)
(* A model of limeout's processing core:                                   *)
(*   - PointStabilizer   (src/processing/stabilizer.py)                    *)
(*   - VideoProcessor    (src/processing/video_processor.py)               *)
(*   - ChromaKeyProcessor (src/processing/chroma_key.py)                   *)
(*   - the validators    (src/utils/validators.py)                         *)
(*                                                                         *)
(* Units.  Offsets and centres are floats of the form n/2 in the code      *)
(* (x + w / 2); the model stores them doubled, so 0.5 px is the integer 1. *)
(*                                                                         *)
(* Images.  A decoded frame is abstracted to what template matching sees:  *)
(* the scene is one textured plane, a frame shows it displaced by a shift  *)
(* <<sx, sy>>, or shows nothing trackable (Blank).  A template cut at      *)
(* <<x, y>> from a frame with shift s correlates above match_threshold     *)
(* with a frame of shift s2 at exactly <<x, y>> + s2 - s and nowhere else. *)
(***************************************************************************)
EXTENDS Integers, Sequences, FiniteSets, TLC

VARIABLES
    \* PointStabilizer
    bounding_box,         \* settings.bounding_box: <<>> (None) or <<x, y, w, h>>
    reference_frame_idx,  \* settings.reference_frame_idx
    border_mode,          \* settings.border_mode
    offsets,              \* _offsets: per-frame <<dx, dy>>, doubled
    tracking_boxes,       \* _tracking_boxes
    analyzed,             \* _analyzed
    reference_center,     \* _reference_center: <<>> (None) or <<cx, cy>>, doubled
    template,             \* _template
    an,                   \* the activation record of analyze_video
    ret,                  \* the last call on the stabilizer and what it returned
    \* VideoProcessor
    cancel_event,         \* _cancel_event (threading.Event): set or not
    is_processing,        \* _is_processing
    job,                  \* per calling thread: the activation record of process / export_image_sequence
    started               \* how many jobs have been started

stabVars == <<bounding_box, reference_frame_idx, border_mode, offsets,
              tracking_boxes, analyzed, reference_center, template>>
procVars == <<cancel_event, is_processing, job, started>>
vars == <<stabVars, an, ret, procVars>>

----------------------------------------------------------------------------
(* Bounds of the model *)

MaxFrames == 2        \* clips of every length 0..MaxFrames are enumerated
FrameW == 160         \* decoded frame width
FrameH == 120         \* decoded frame height
MaxJobs == 2          \* jobs started on one VideoProcessor
CropMax == 4        \* crop coordinates and sizes range over -1..CropMax
MaxDim == 3         \* frame widths and heights range over 1..MaxDim
SizeMax == 6        \* resize widths range over 0..SizeMax, cropped sizes over 1..SizeMax
RowLen == 3         \* the width of the frames the keyer is applied to

(* Program constants *)

SearchMargin == 50          \* analyze_video: search_margin = 50
AnalyzeProgressEvery == 10  \* analyze_video: frame_idx % 10 == 0
ProcessProgressEvery == 5   \* process / export_image_sequence: frame_count % 5 == 0

----------------------------------------------------------------------------
(* Python values *)

NoneBox == <<>>
NoneCenter == <<>>
NoneMatch == <<>>
NoTemplate == [set |-> FALSE, blank |-> TRUE, w |-> 0, h |-> 0, px |-> 0, py |-> 0]

Max(a, b) == IF a >= b THEN a ELSE b
Min(a, b) == IF a <= b THEN a ELSE b
Abs(a) == IF a < 0 THEN -a ELSE a

\* seq[i] for a Python list and a 0-based index that may be negative.
PyIndexOk(i, n) == -n <= i /\ i < n
PyIndex(s, i) == IF i >= 0 THEN s[i + 1] ELSE s[Len(s) + i + 1]

----------------------------------------------------------------------------
(* Frames and video files *)

Blank == <<>>
Shifts == {<<0, 0>>, <<4, -3>>, <<100, 0>>}
FrameKinds == Shifts \cup {Blank}

RECURSIVE SeqsUpTo(_, _)
SeqsUpTo(S, n) ==
    IF n = 0 THEN {<<>>}
    ELSE LET shorter == SeqsUpTo(S, n - 1)
         IN  shorter \cup {Append(s, e) : s \in {t \in shorter : Len(t) = n - 1}, e \in S}

\* A clip long enough for the progress callback of the analysis pass to fire.
LongFrames == [i \in 1..AnalyzeProgressEvery |-> <<0, 0>>]

\* A video file: whether cv2.VideoCapture opens it, its frames, and the
\* CAP_PROP_FRAME_COUNT its container reports (0 when the container has none).
Videos ==
    {[openable |-> TRUE, frames |-> s, frame_count |-> Len(s)] : s \in SeqsUpTo(FrameKinds, MaxFrames)}
    \cup {[openable |-> TRUE, frames |-> LongFrames, frame_count |-> c] :
            c \in {0, Len(LongFrames) - 1, Len(LongFrames)}}
    \cup {[openable |-> FALSE, frames |-> <<>>, frame_count |-> 0]}

\* The boxes a caller passes to set_bounding_box: one inside the frame, one
\* larger than the frame (its template is cut down to the frame).
Boxes == {<<20, 30, 10, 10>>, <<0, 0, FrameW + 1, FrameH>>}
RefIdxs == 0..MaxFrames

----------------------------------------------------------------------------
(* PointStabilizer: helpers *)

\* _reset_analysis without the line that clears _analyzed.
ResetAnalysisKeepsFlag == <<<<>>, <<>>, analyzed, NoneCenter, NoTemplate>>

\* _reset_analysis without the line that clears _reference_center.
ResetAnalysisKeepsCenter == <<<<>>, <<>>, FALSE, reference_center, NoTemplate>>

\* _reset_analysis: the cleared values of
\* <<_offsets, _tracking_boxes, _analyzed, _reference_center, _template>>.
ResetAnalysisValue == <<<<>>, <<>>, FALSE, NoneCenter, NoTemplate>>

ResetAnalysis ==
    /\ offsets' = ResetAnalysisValue[1]
    /\ tracking_boxes' = ResetAnalysisValue[2]
    /\ analyzed' = ResetAnalysisValue[3]
    /\ reference_center' = ResetAnalysisValue[4]
    /\ template' = ResetAnalysisValue[5]

\* _extract_template(frame, bbox): the box is moved inside the frame, and the
\* slice frame[y:y+h, x:x+w] is cut at the frame's edge.
ExtractTemplate(frame, bbox) ==
    LET x == Max(0, Min(bbox[1], FrameW - bbox[3]))
        y == Max(0, Min(bbox[2], FrameH - bbox[4]))
        w == Max(0, Min(x + bbox[3], FrameW) - x)
        h == Max(0, Min(y + bbox[4], FrameH) - y)
    IN  IF frame = Blank
        THEN [set |-> TRUE, blank |-> TRUE, w |-> w, h |-> h, px |-> 0, py |-> 0]
        ELSE [set |-> TRUE, blank |-> FALSE, w |-> w, h |-> h,
              px |-> x - frame[1], py |-> y - frame[2]]

\* Where cv2.matchTemplate scores the template at or above match_threshold in
\* the frame: <<>> when nowhere.
TrueLocation(frame, t) ==
    IF frame = Blank \/ t.blank THEN NoneMatch
    ELSE <<t.px + frame[1], t.py + frame[2]>>

\* The area _match_template searches: the whole frame, or the search region
\* clamped to the frame when the template fits in it.
SearchArea(t, search_region) ==
    IF search_region = NoneBox THEN <<0, 0, FrameW, FrameH>>
    ELSE LET sx == Max(0, search_region[1])
             sy == Max(0, search_region[2])
             sw == Min(search_region[3], FrameW - sx)
             sh == Min(search_region[4], FrameH - sy)
         IN  IF sw < t.w \/ sh < t.h THEN <<0, 0, FrameW, FrameH>>
             ELSE <<sx, sy, sw, sh>>

\* _match_template(frame, template, search_region): the matched box or None.
MatchTemplate(frame, t, search_region) ==
    LET area == SearchArea(t, search_region)
        loc == TrueLocation(frame, t)
    IN  IF area[4] < t.h \/ area[3] < t.w THEN NoneMatch
        ELSE IF loc = NoneMatch THEN NoneMatch
        ELSE IF /\ area[1] <= loc[1] /\ loc[1] + t.w <= area[1] + area[3]
                /\ area[2] <= loc[2] /\ loc[2] + t.h <= area[2] + area[4]
             THEN <<loc[1], loc[2], t.w, t.h>>
             ELSE NoneMatch

\* analyze_video: the search region around the last known box.
SearchRegion(last_box) ==
    <<last_box[1] - SearchMargin, last_box[2] - SearchMargin,
      last_box[3] + 2 * SearchMargin, last_box[4] + 2 * SearchMargin>>

\* The constrained search alone, without the full-frame search on a miss.
TrackFrameConstrainedOnly(frame, t, last_box) == MatchTemplate(frame, t, SearchRegion(last_box))

\* analyze_video: constrained search, then the full-frame search on a miss.
TrackFrame(frame, t, last_box) ==
    LET first == MatchTemplate(frame, t, SearchRegion(last_box))
    IN  IF first = NoneMatch THEN MatchTemplate(frame, t, NoneBox) ELSE first

\* (x + w / 2, y + h / 2), doubled.
Center2(box) == <<2 * box[1] + box[3], 2 * box[2] + box[4]>>

\* The offset taken as tracked centre minus reference centre.
MatchedEntryTrackedMinusRef(matched, ref_center) ==
    <<<<Center2(matched)[1] - ref_center[1], Center2(matched)[2] - ref_center[2]>>, matched>>

\* analyze_video: the <<offset, box>> recorded for a matched frame.
MatchedEntry(matched, ref_center) ==
    <<<<ref_center[1] - Center2(matched)[1], ref_center[2] - Center2(matched)[2]>>, matched>>

\* Tracking loss recorded as "no offset" instead of the previous frame's values.
LostEntryZero(offs, boxes, bbox) == <<<<0, 0>>, bbox>>

\* analyze_video: the <<offset, box>> recorded when tracking is lost.
LostEntry(offs, boxes, bbox) ==
    IF offs # <<>> THEN <<offs[Len(offs)], boxes[Len(boxes)]>>
    ELSE <<<<0, 0>>, bbox>>

----------------------------------------------------------------------------
(* PointStabilizer.analyze_video, one action per step of the method.         *)
(* an.pc: "idle" (never called), "loop" (at the head of the while loop),     *)
(* "returned" (an.result is True or False), "raised" (an exception left it). *)

AnIdle == [pc |-> "idle", video |-> [openable |-> FALSE, frames |-> <<>>, frame_count |-> 0],
           cb |-> FALSE, cap |-> "none", frame_idx |-> 0, last_box |-> NoneBox,
           bbox |-> NoneBox, result |-> FALSE,
           \* the last progress value passed to the callback, <<num, den>> for num / den
           progress |-> <<>>]

AnDone(a, pc, result, cap) == [a EXCEPT !.pc = pc, !.result = result, !.cap = cap]

\* The reference frame read without the seek to reference_frame_idx.
ReadReferenceNoSeek(video, ref_idx) ==
    IF 0 < Len(video.frames) THEN <<video.frames[1]>> ELSE <<>>

\* The reference frame cap.read() returns after the seek, <<>> wrapped: <<frame>> or <<>>.
ReadReference(video, ref_idx) ==
    LET pos == IF ref_idx > 0 THEN ref_idx ELSE 0
    IN  IF pos < Len(video.frames) THEN <<video.frames[pos + 1]>> ELSE <<>>

\* Lines 184-219: the guards, the reset, the reference frame and the template.
AnalyzeStart(video, cb) ==
    LET a == [AnIdle EXCEPT !.video = video, !.cb = cb, !.bbox = bounding_box]
    IN
    /\ an.pc # "loop"
    /\ UNCHANGED <<bounding_box, reference_frame_idx, border_mode>>
    /\ IF bounding_box = NoneBox
       THEN /\ an' = AnDone(a, "returned", FALSE, "none")
            /\ UNCHANGED <<offsets, tracking_boxes, analyzed, reference_center, template>>
       ELSE IF ~video.openable
       THEN /\ ResetAnalysis
            /\ an' = AnDone(a, "returned", FALSE, "none")
       ELSE IF ReadReference(video, reference_frame_idx) = <<>>
       THEN /\ ResetAnalysis
            /\ an' = AnDone(a, "returned", FALSE, "released")
       ELSE /\ offsets' = ResetAnalysisValue[1]
            /\ tracking_boxes' = ResetAnalysisValue[2]
            /\ analyzed' = ResetAnalysisValue[3]
            /\ template' = ExtractTemplate(ReadReference(video, reference_frame_idx)[1], bounding_box)
            /\ reference_center' = Center2(bounding_box)
            /\ an' = [a EXCEPT !.pc = "loop", !.cap = "open", !.frame_idx = 0,
                               !.last_box = bounding_box]

\* Lines 221-275: one iteration of the while loop, or the exit at end of stream.
AnalyzeFrame ==
    /\ an.pc = "loop"
    /\ UNCHANGED <<bounding_box, reference_frame_idx, border_mode, reference_center, template>>
    /\ IF an.frame_idx >= Len(an.video.frames)
       THEN /\ analyzed' = TRUE
            /\ an' = AnDone(an, "returned", TRUE, "released")
            /\ UNCHANGED <<offsets, tracking_boxes>>
       ELSE LET frame == an.video.frames[an.frame_idx + 1]
                matched == TrackFrame(frame, template, an.last_box)
                entry == IF matched # NoneMatch
                         THEN MatchedEntry(matched, reference_center)
                         ELSE LostEntry(offsets, tracking_boxes, an.bbox)
                idx == an.frame_idx + 1
                divides == an.cb /\ idx % AnalyzeProgressEvery = 0 /\ an.video.frame_count = 0
                a == [an EXCEPT !.frame_idx = idx,
                                !.last_box = IF matched # NoneMatch THEN matched ELSE an.last_box]
                reports == an.cb /\ idx % AnalyzeProgressEvery = 0 /\ an.video.frame_count # 0
            IN  /\ offsets' = Append(offsets, entry[1])
                /\ tracking_boxes' = Append(tracking_boxes, entry[2])
                /\ UNCHANGED analyzed
                /\ an' = IF divides THEN AnDone(a, "raised", FALSE, "released")
                         ELSE IF reports THEN [a EXCEPT !.progress = <<idx, 2 * an.video.frame_count>>]
                         ELSE a

----------------------------------------------------------------------------
(* PointStabilizer: the other methods *)

StateName == IF bounding_box = NoneBox THEN "Unset" ELSE IF analyzed THEN "Analyzed" ELSE "Ready"

SetBoundingBox(box, ref_idx) ==
    /\ bounding_box' = box
    /\ reference_frame_idx' = ref_idx
    /\ ResetAnalysis
    /\ UNCHANGED border_mode

\* reset() that clears the box and leaves the analysis.
ResetKeepsAnalysis ==
    /\ bounding_box' = NoneBox
    /\ UNCHANGED <<offsets, tracking_boxes, analyzed, reference_center, template>>
    /\ UNCHANGED <<reference_frame_idx, border_mode>>

\* reset() that clears the analysis and leaves the box.
ResetKeepsBox ==
    /\ ResetAnalysis
    /\ UNCHANGED <<bounding_box, reference_frame_idx, border_mode>>

Reset ==
    /\ bounding_box' = NoneBox
    /\ ResetAnalysis
    /\ UNCHANGED <<reference_frame_idx, border_mode>>

\* get_offset(frame_idx): <<dx, dy>>, or "IndexError".
GetOffset(idx) ==
    IF ~analyzed \/ idx >= Len(offsets) THEN [kind |-> "value", value |-> <<0, 0>>]
    ELSE IF ~PyIndexOk(idx, Len(offsets)) THEN [kind |-> "IndexError", value |-> <<0, 0>>]
    ELSE [kind |-> "value", value |-> PyIndex(offsets, idx)]

\* A frame handed to the stabilizer: its size, its channels, and by how much
\* (doubled) and with which border fill it has been translated.
InputFrames == {[w |-> FrameW, h |-> FrameH, ch |-> c, tx |-> 0, ty |-> 0, fill |-> "none"] : c \in {3, 4}}

\* The threshold test written with <= : half a pixel counts as no offset.
InsignificantInclusive(off) == Abs(off[1]) <= 1 /\ Abs(off[2]) <= 1

\* Whether apply_stabilization treats the offset as no offset: abs(dx) < 0.5 and abs(dy) < 0.5.
Insignificant(off) == Abs(off[1]) < 1 /\ Abs(off[2]) < 1

\* cv2.warpAffine with the border mode of the settings.
Warp(frame, off, mode) ==
    IF mode = "transparent"
    THEN [frame EXCEPT !.ch = 4, !.tx = @ + off[1], !.ty = @ + off[2], !.fill = "transparent"]
    ELSE IF mode = "replicate"
    THEN [frame EXCEPT !.tx = @ + off[1], !.ty = @ + off[2], !.fill = "replicate"]
    ELSE [frame EXCEPT !.tx = @ + off[1], !.ty = @ + off[2],
                       !.fill = IF frame.ch = 4 THEN "transparent" ELSE "black"]

\* apply_stabilization(frame, frame_idx): the returned frame, or "IndexError".
ApplyStabilization(frame, idx) ==
    IF ~analyzed \/ idx >= Len(offsets) THEN [kind |-> "frame", frame |-> frame]
    ELSE IF ~PyIndexOk(idx, Len(offsets)) THEN [kind |-> "IndexError", frame |-> frame]
    ELSE IF Insignificant(PyIndex(offsets, idx)) THEN [kind |-> "frame", frame |-> frame]
    ELSE [kind |-> "frame", frame |-> Warp(frame, PyIndex(offsets, idx), border_mode)]

----------------------------------------------------------------------------
(* The stabilizer driven by one caller: each action is one call, except     *)
(* analyze_video, which is the call and then one action per loop iteration. *)
(* ret records the call and its result; the activation record of a finished *)
(* analyze_video is dropped by the next call.                               *)

CallSetBoundingBox(box, ref_idx) ==
    /\ an.pc # "loop"
    /\ SetBoundingBox(box, ref_idx)
    /\ ret' = [op |-> "set_bounding_box", box |-> box, ref |-> ref_idx, was |-> StateName]
    /\ an' = AnIdle
    /\ UNCHANGED procVars

CallReset ==
    /\ an.pc # "loop"
    /\ Reset
    /\ ret' = [op |-> "reset", was |-> StateName]
    /\ an' = AnIdle
    /\ UNCHANGED procVars

CallGetOffset(idx) ==
    /\ an.pc # "loop"
    /\ ret' = [op |-> "get_offset", idx |-> idx, val |-> GetOffset(idx), was |-> StateName]
    /\ an' = AnIdle
    /\ UNCHANGED stabVars
    /\ UNCHANGED procVars

CallApplyStabilization(frame, idx) ==
    /\ an.pc # "loop"
    /\ ret' = [op |-> "apply_stabilization", idx |-> idx, frame |-> frame,
               val |-> ApplyStabilization(frame, idx), was |-> StateName]
    /\ an' = AnIdle
    /\ UNCHANGED stabVars
    /\ UNCHANGED procVars

CallAnalyzeVideo(video, cb) ==
    /\ AnalyzeStart(video, cb)
    /\ ret' = [op |-> "analyze_video", was |-> StateName]
    /\ UNCHANGED procVars

StepAnalyzeVideo ==
    /\ AnalyzeFrame
    /\ ret' = [op |-> "analyze_video", was |-> ret.was]
    /\ UNCHANGED procVars

----------------------------------------------------------------------------
(* VideoProcessor: process and export_image_sequence, one action per step.  *)
(* job[t].pc: "idle", "open" (validate and open), "setup" (stabilization    *)
(* analysis or none), "analyzing", "writer", "check" (head of the frame     *)
(* loop), "iter" (the rest of the iteration), "finally", "done".            *)

Workers == {1, 2}

JobIdle == [pc |-> "idle", kind |-> "process", video |-> AnIdle.video,
            in_ok |-> FALSE, out_ok |-> FALSE, use_stab |-> FALSE, cb |-> FALSE,
            stabilizer |-> FALSE, cap |-> "none", writer |-> "none",
            frame_count |-> 0, written |-> 0, outcome |-> "none",
            \* history, for the claims: cancel() ran during the job; the flag
            \* was set at a check; frames written by then; frames worked on
            \* while the flag was set
            cancelled |-> FALSE, seen |-> FALSE, written_seen |-> 0, late |-> 0,
            \* what apply_stabilization returned for each frame of the apply pass
            applied |-> <<>>,
            \* the last progress value the job passed to the callback, <<num, den>>
            progress |-> <<>>]

Active(t) == job[t].pc \notin {"idle", "done"}

\* The clips a job is run on: frames that match where the box is, or nowhere.
JobVideos == {v \in Videos : \A i \in 1..Len(v.frames) : v.frames[i] \in {<<0, 0>>, <<4, -3>>, Blank}}
JobBoxes == {<<20, 30, 10, 10>>}

\* cancel(): the event is set only while _is_processing.
Cancel ==
    /\ is_processing
    /\ cancel_event' = TRUE
    /\ job' = [t \in Workers |-> IF Active(t) THEN [job[t] EXCEPT !.cancelled = TRUE] ELSE job[t]]
    /\ UNCHANGED <<stabVars, an, ret, is_processing, started>>

\* Lines 122-127 / 357-361: the event is cleared and the flag raised.
JobBegin(t, req) ==
    /\ ~Active(t)
    /\ started < MaxJobs
    /\ started' = started + 1
    /\ cancel_event' = FALSE
    /\ is_processing' = TRUE
    /\ job' = [job EXCEPT ![t] = [JobIdle EXCEPT !.pc = "open", !.kind = req.kind,
                                                 !.video = req.video, !.in_ok = req.in_ok,
                                                 !.out_ok = req.out_ok,
                                                 !.use_stab = req.use_stab, !.cb = req.cb]]
    /\ UNCHANGED <<stabVars, an, ret>>

\* Lines 129-139 / 363-377: the paths are validated and the decoder opened;
\* either may raise ValidationError.  process validates its output path
\* (validate_output_path); export_image_sequence only calls mkdir(parents=True,
\* exist_ok=True) on its output folder, which raises OSError when the folder
\* cannot be created and passes when the path exists but cannot be written to.
JobOpen(t) ==
    /\ job[t].pc = "open"
    /\ \/ job' = [job EXCEPT ![t] =
               IF ~job[t].in_ok \/ (job[t].kind = "process" /\ ~job[t].out_ok)
               THEN [@ EXCEPT !.pc = "finally", !.outcome = "raised"]
               ELSE IF ~job[t].video.openable
               THEN [@ EXCEPT !.pc = "finally", !.outcome = "raised", !.cap = "unopened"]
               ELSE [@ EXCEPT !.pc = "setup", !.cap = "open"]]
       \/ /\ job[t].kind = "export_image_sequence" /\ job[t].in_ok /\ ~job[t].out_ok
          /\ job' = [job EXCEPT ![t].pc = "finally", ![t].outcome = "raised"]
    /\ UNCHANGED <<stabVars, an, ret, cancel_event, is_processing, started>>

\* Lines 180-192 / 411-422: the analysis pass is entered when a stabilizer is
\* given, enabled and has a box.
JobSetup(t) ==
    /\ job[t].pc = "setup"
    /\ IF job[t].use_stab /\ bounding_box # NoneBox
       THEN /\ AnalyzeStart(job[t].video, job[t].cb)
            /\ job' = [job EXCEPT ![t].pc = "analyzing"]
       ELSE /\ job' = [job EXCEPT ![t].pc = "writer", ![t].stabilizer = FALSE]
            /\ UNCHANGED <<stabVars, an>>
    /\ UNCHANGED <<ret, cancel_event, is_processing, started>>

\* analyze_video's loop running inside the job.
JobAnalyzeStep(t) ==
    /\ job[t].pc = "analyzing"
    /\ AnalyzeFrame
    /\ job' = [job EXCEPT ![t].late =
            IF cancel_event /\ an.frame_idx < Len(an.video.frames) THEN @ + 1 ELSE @]
    /\ UNCHANGED <<ret, cancel_event, is_processing, started>>

\* analyze_video has returned to the job, or raised into it.
JobAnalyzeDone(t) ==
    /\ job[t].pc = "analyzing"
    /\ an.pc \in {"returned", "raised"}
    /\ job' = [job EXCEPT ![t] =
            IF an.pc = "raised" THEN [@ EXCEPT !.pc = "finally", !.outcome = "raised"]
            ELSE [@ EXCEPT !.pc = "writer", !.stabilizer = an.result]]
    /\ an' = AnIdle
    /\ UNCHANGED <<stabVars, ret, cancel_event, is_processing, started>>

\* Lines 194-225: imageio.get_writer opens the encoder, or raises; the
\* PNG sequence export has no encoder.
JobWriter(t) ==
    /\ job[t].pc = "writer"
    /\ \/ job' = [job EXCEPT ![t].pc = "check",
                             ![t].writer = IF job[t].kind = "process" THEN "open" ELSE "none"]
       \/ /\ job[t].kind = "process"
          /\ job' = [job EXCEPT ![t].pc = "finally", ![t].outcome = "raised"]
    /\ UNCHANGED <<stabVars, an, ret, cancel_event, is_processing, started>>

\* A check that never sees the event.
CancelNeverObserved == FALSE

\* self._cancel_event.is_set()
CancelObserved == cancel_event

\* Lines 227-231 / 431-435: the check at the head of the frame loop.
JobCheck(t) ==
    /\ job[t].pc = "check"
    /\ job' = [job EXCEPT ![t] =
            IF CancelObserved
            THEN [@ EXCEPT !.pc = "finally", !.outcome = "False",
                           !.seen = cancel_event, !.written_seen = job[t].written]
            ELSE [@ EXCEPT !.pc = "iter",
                           !.seen = cancel_event, !.written_seen = job[t].written]]
    /\ UNCHANGED <<stabVars, an, ret, cancel_event, is_processing, started>>

\* Whether the progress report of this frame divides by a frame count of 0.
ProgressDivides(j, n) == j.cb /\ n % ProcessProgressEvery = 0 /\ j.video.frame_count = 0

\* The frame cap.read() decodes: BGR, at the size of the clip.
DecodedFrame == [w |-> FrameW, h |-> FrameH, ch |-> 3, tx |-> 0, ty |-> 0, fill |-> "none"]

\* The apply pass indexing the offsets one frame ahead.
JobFrameIdxNext(j) == j.frame_count + 1

\* Lines 238-239 / 442-443: the index passed to apply_stabilization is the
\* number of frames already processed.
JobFrameIdx(j) == j.frame_count

\* Lines 238-247: the frame after the stabilization step, when the job has a stabilizer.
JobStabilize(j) ==
    IF j.stabilizer THEN ApplyStabilization(DecodedFrame, JobFrameIdx(j)).frame
    ELSE DecodedFrame

\* Lines 302-306 / 486-490: the progress value after the n-th frame, when one
\* is reported: frame_count / total_frames.
JobProgress(j, n) ==
    IF j.cb /\ n % ProcessProgressEvery = 0 /\ j.video.frame_count # 0
    THEN <<n, j.video.frame_count>> ELSE j.progress

\* Lines 314-315 / 498-499: progress_callback(1.0, "Complete!").
JobComplete(j) == IF j.cb THEN <<1, 1>> ELSE j.progress

\* Lines 233-317 / 437-501: the frame is read, stabilised, keyed and handed
\* to the sink, or the loop ends at end of stream; the sink may raise.
JobIter(t) ==
    /\ job[t].pc = "iter"
    /\ \/ /\ job[t].frame_count >= Len(job[t].video.frames)
          /\ job' = [job EXCEPT ![t].pc = "finally", ![t].outcome = "True",
                                   ![t].progress = JobComplete(job[t])]
       \/ /\ job[t].frame_count < Len(job[t].video.frames)
          /\ job' = [job EXCEPT ![t] =
                  [@ EXCEPT !.pc = IF ProgressDivides(job[t], job[t].frame_count + 1) THEN "finally" ELSE "check",
                            !.outcome = IF ProgressDivides(job[t], job[t].frame_count + 1) THEN "raised" ELSE @,
                            !.frame_count = @ + 1,
                            !.written = @ + 1,
                            !.late = IF cancel_event THEN @ + 1 ELSE @,
                            !.applied = Append(@, JobStabilize(job[t])),
                            !.progress = JobProgress(job[t], job[t].frame_count + 1)]]
       \/ /\ job[t].frame_count < Len(job[t].video.frames)
          /\ job' = [job EXCEPT ![t] =
                  [@ EXCEPT !.pc = "finally", !.outcome = "raised",
                            !.late = IF cancel_event THEN @ + 1 ELSE @,
                            !.applied = Append(@, JobStabilize(job[t]))]]
    /\ UNCHANGED <<stabVars, an, ret, cancel_event, is_processing, started>>

\* A finally block that forgets the encoder.
ReleaseCapOnly(j) == [j EXCEPT !.cap = IF @ = "none" THEN "none" ELSE "released"]

\* Lines 325-333 / 509-511: cap.release() and writer.close() when they exist.
ReleaseHandles(j) ==
    [j EXCEPT !.cap = IF @ = "none" THEN "none" ELSE "released",
              !.writer = IF @ = "none" THEN "none" ELSE "closed"]

\* The record of a job that is over: its locals are gone, its handles, its
\* outcome and its history stay.
Returned(j) ==
    [JobIdle EXCEPT !.pc = "done", !.kind = j.kind, !.cap = j.cap, !.writer = j.writer,
                    !.written = j.written, !.outcome = j.outcome, !.cancelled = j.cancelled,
                    !.seen = j.seen, !.written_seen = j.written_seen, !.late = j.late]

\* Lines 325-334 / 509-512: the finally block, then the return or the raise.
JobFinally(t) ==
    /\ job[t].pc = "finally"
    /\ job' = [job EXCEPT ![t] = Returned(ReleaseHandles(job[t]))]
    /\ is_processing' = FALSE
    /\ UNCHANGED <<stabVars, an, ret, cancel_event, started>>

\* The frame loop as the export thread runs it next to the UI thread:
\* apply_stabilization's guard (stabilizer.py:312) and its indexed read (line
\* 315) are separate steps.  pc "apply_read": the guard has passed, the read
\* has not happened yet.
JobRead(t) ==
    /\ job[t].pc = "iter"
    /\ \/ /\ job[t].frame_count >= Len(job[t].video.frames)
          /\ job' = [job EXCEPT ![t].pc = "finally", ![t].outcome = "True",
                                   ![t].progress = JobComplete(job[t])]
       \/ /\ job[t].frame_count < Len(job[t].video.frames)
          /\ ~job[t].stabilizer \/ ~analyzed \/ JobFrameIdx(job[t]) >= Len(offsets)
          /\ job' = [job EXCEPT ![t] =
                  [@ EXCEPT !.pc = IF ProgressDivides(job[t], job[t].frame_count + 1) THEN "finally" ELSE "check",
                            !.outcome = IF ProgressDivides(job[t], job[t].frame_count + 1) THEN "raised" ELSE @,
                            !.frame_count = @ + 1,
                            !.written = @ + 1,
                            !.applied = Append(@, DecodedFrame),
                            !.progress = JobProgress(job[t], job[t].frame_count + 1)]]
       \/ /\ job[t].frame_count < Len(job[t].video.frames)
          /\ job[t].stabilizer /\ analyzed /\ JobFrameIdx(job[t]) < Len(offsets)
          /\ job' = [job EXCEPT ![t].pc = "apply_read"]
    /\ UNCHANGED <<stabVars, an, ret, cancel_event, is_processing, started>>

\* stabilizer.py:315-350: dx, dy = self._offsets[frame_idx] on the list as it
\* is now, then the rest of the iteration; an IndexError leaves the job.
JobApplyRead(t) ==
    /\ job[t].pc = "apply_read"
    /\ job' = [job EXCEPT ![t] =
            IF ~PyIndexOk(JobFrameIdx(job[t]), Len(offsets))
            THEN [@ EXCEPT !.pc = "finally", !.outcome = "raised"]
            ELSE [@ EXCEPT !.pc = IF ProgressDivides(job[t], job[t].frame_count + 1) THEN "finally" ELSE "check",
                           !.outcome = IF ProgressDivides(job[t], job[t].frame_count + 1) THEN "raised" ELSE @,
                           !.frame_count = @ + 1,
                           !.written = @ + 1,
                           !.applied = Append(@,
                                IF Insignificant(PyIndex(offsets, JobFrameIdx(job[t]))) THEN DecodedFrame
                                ELSE Warp(DecodedFrame, PyIndex(offsets, JobFrameIdx(job[t])), border_mode)),
                           !.progress = JobProgress(job[t], job[t].frame_count + 1)]]
    /\ UNCHANGED <<stabVars, an, ret, cancel_event, is_processing, started>>

\* The stabilization panel of the user interface, which stays enabled during
\* an export: region selection (set_bounding_box) and reset, on the UI thread.
\* Taken here between jobs and during the frame loop of a job.
UiSelectRegion(box, ref_idx) ==
    /\ an.pc # "loop"
    /\ SetBoundingBox(box, ref_idx)
    /\ UNCHANGED <<an, ret, procVars>>

UiResetStab ==
    /\ an.pc # "loop"
    /\ Reset
    /\ UNCHANGED <<an, ret, procVars>>

\* The steps of the job itself, and those of the analysis pass it calls.
JobRun(t) ==
    \/ JobOpen(t)
    \/ JobSetup(t)
    \/ JobWriter(t)
    \/ JobCheck(t)
    \/ JobIter(t)
    \/ JobFinally(t)

JobAnalysis(t) ==
    \/ JobAnalyzeStep(t)
    \/ JobAnalyzeDone(t)

\* The region selection of the user interface, while no export runs.
UiSetBoundingBox(box, ref_idx) ==
    /\ \A t \in Workers : ~Active(t)
    /\ SetBoundingBox(box, ref_idx)
    /\ UNCHANGED <<an, ret, procVars>>

JobKinds == {"process", "export_image_sequence"}

\* A readable clip of one frame.
OneFrameVideo == [openable |-> TRUE, frames |-> <<<<0, 0>>>>, frame_count |-> 1]

\* The calls of process / export_image_sequence: on a valid input with or
\* without the stabilizer in the options, or with a path that fails validation.
Requests(videos, stab) ==
    {[kind |-> k, video |-> v, in_ok |-> TRUE, out_ok |-> TRUE, use_stab |-> s, cb |-> TRUE] :
        k \in JobKinds, v \in videos, s \in stab}
    \cup {[kind |-> k, video |-> AnIdle.video, in_ok |-> i, out_ok |-> ~i, use_stab |-> FALSE, cb |-> TRUE] :
        k \in JobKinds, i \in BOOLEAN}
    \cup {[kind |-> k, video |-> OneFrameVideo, in_ok |-> TRUE, out_ok |-> FALSE, use_stab |-> FALSE, cb |-> TRUE] :
        k \in JobKinds}

BorderModes == {"transparent", "replicate", "crop"}
FrameIdxs == (-(MaxFrames + 1))..(MaxFrames + 1)

Init ==
    /\ bounding_box = NoneBox
    /\ reference_frame_idx = 0
    /\ border_mode \in BorderModes
    /\ offsets = <<>>
    /\ tracking_boxes = <<>>
    /\ analyzed = FALSE
    /\ reference_center = NoneCenter
    /\ template = NoTemplate
    /\ an = AnIdle
    /\ ret = [op |-> "init"]
    /\ cancel_event = FALSE
    /\ is_processing = FALSE
    /\ job = [t \in Workers |-> JobIdle]
    /\ started = 0

Next ==
    \/ \E box \in Boxes, r \in RefIdxs : CallSetBoundingBox(box, r)
    \/ CallReset
    \/ \E v \in Videos, cb \in BOOLEAN : CallAnalyzeVideo(v, cb)
    \/ StepAnalyzeVideo
    \/ \E i \in FrameIdxs : CallGetOffset(i)
    \/ \E f \in InputFrames, i \in FrameIdxs : CallApplyStabilization(f, i)

Spec == Init /\ [][Next]_vars

\* The application: one export thread at a time (the export buttons are
\* disabled until the job's completion callback), cancel() from the UI thread.
InitJob == Init /\ border_mode = "transparent"

NextJob ==
    \/ \E box \in JobBoxes, r \in RefIdxs : UiSetBoundingBox(box, r)
    \/ \E req \in Requests(JobVideos, BOOLEAN) : JobBegin(1, req)
    \/ JobRun(1)
    \/ JobAnalysis(1)
    \/ Cancel

SpecJob == InitJob /\ [][NextJob]_vars

\* Two threads calling process / export_image_sequence on one VideoProcessor
\* (no stabilizer in the options), cancel() from a third.
ConcVideos == {v \in JobVideos : Len(v.frames) <= MaxFrames /\ \A i \in 1..Len(v.frames) : v.frames[i] = <<0, 0>>}

NextConc ==
    \/ \E t \in Workers, req \in Requests(ConcVideos, {FALSE}) : JobBegin(t, req)
    \/ \E t \in Workers : JobRun(t)
    \/ Cancel

SpecConc == InitJob /\ [][NextConc]_vars

----------------------------------------------------------------------------
(* Claims about the stabilizer, checked under Spec *)

ZeroOffset == [kind |-> "value", value |-> <<0, 0>>]
Unmodified(frame) == [kind |-> "frame", frame |-> frame]

\* C1: after set_bounding_box(x, y, w, h, ref) in any state the stabilizer is
\* Ready with the given box and reference index, is_analyzed false and both
\* lists empty; get_offset returns (0,0) for every index while the stabilizer
\* is not analyzed, and only an analyze_video that returns True makes it
\* analyzed again.
C1_SetBoundingBoxReady ==
    [][ /\ ret'.op = "set_bounding_box" =>
              /\ bounding_box' = ret'.box
              /\ reference_frame_idx' = ret'.ref
              /\ ~analyzed'
              /\ offsets' = <<>>
              /\ tracking_boxes' = <<>>
        /\ ~analyzed' => \A i \in FrameIdxs : GetOffset(i)' = ZeroOffset
        /\ (ret'.op = "get_offset" /\ ~analyzed') => ret'.val = ZeroOffset
        /\ (~analyzed /\ analyzed') =>
              /\ ret'.op = "analyze_video"
              /\ an'.pc = "returned"
              /\ an'.result = TRUE
      ]_vars

\* set_bounding_box has been called on an analyzed stabilizer.
C1_Witness == ret.op = "set_bounding_box" /\ ret.was = "Analyzed" /\ bounding_box # NoneBox

\* C2: after reset() in any state the stabilizer is Unset (no box, not
\* analyzed, both lists empty); in that state analyze_video returns False and
\* apply_stabilization returns its input frame.
C2_ResetUnset ==
    /\ ret.op = "reset" =>
          /\ bounding_box = NoneBox
          /\ ~analyzed
          /\ offsets = <<>>
          /\ tracking_boxes = <<>>
    /\ bounding_box = NoneBox =>
          /\ ~analyzed
          /\ \A f \in InputFrames, i \in FrameIdxs : ApplyStabilization(f, i) = Unmodified(f)
    /\ (ret.op = "analyze_video" /\ ret.was = "Unset") =>
          /\ an.pc = "returned"
          /\ an.result = FALSE
          /\ bounding_box = NoneBox
    /\ (ret.op = "apply_stabilization" /\ ret.was = "Unset") => ret.val = Unmodified(ret.frame)

\* reset() has been called on an analyzed stabilizer.
C2_Witness == ret.op = "reset" /\ ret.was = "Analyzed"

\* What analyze_video has returned, once it has.
AnalyzeOver == ret.op = "analyze_video" /\ an.pc \in {"returned", "raised"}
AnalyzeUnset == ret.was = "Unset"
AnalyzeUnopenable == ~an.video.openable
AnalyzeNoReference == reference_frame_idx >= Len(an.video.frames)
AnalyzeRecordedAll ==
    /\ analyzed
    /\ Len(offsets) = Len(an.video.frames)
    /\ Len(tracking_boxes) = Len(an.video.frames)

\* C3 as stated: analyze_video returns False when the box is unset or the
\* source cannot be opened, and in every other case returns True with one
\* offset and one box per decoded frame and the state Analyzed.
C3_Original ==
    AnalyzeOver =>
        IF AnalyzeUnset \/ AnalyzeUnopenable
        THEN an.pc = "returned" /\ an.result = FALSE
        ELSE an.pc = "returned" /\ an.result = TRUE /\ AnalyzeRecordedAll

\* C3 as amended: analyze_video returns False exactly when the box is unset,
\* the source cannot be opened, or the reference frame cannot be decoded
\* (reference_frame_idx is at or past the end of the clip); when it returns
\* True it has recorded one offset and one box per decoded frame and the state
\* is Analyzed; it raises only from the progress division (a callback, a
\* reported frame count of 0, a multiple of ten frames scanned) and then the
\* state is not Analyzed.
C3_AnalyzeResult ==
    AnalyzeOver =>
        /\ an.pc = "returned" =>
              /\ an.result = FALSE <=> (AnalyzeUnset \/ AnalyzeUnopenable \/ AnalyzeNoReference)
              /\ an.result = TRUE => AnalyzeRecordedAll
              /\ an.result = FALSE => ~analyzed
        /\ an.pc = "raised" =>
              /\ ~analyzed
              /\ ~(AnalyzeUnset \/ AnalyzeUnopenable \/ AnalyzeNoReference)
              /\ an.cb
              /\ an.video.frame_count = 0
              /\ an.frame_idx % AnalyzeProgressEvery = 0
        /\ an.cap \in {"none", "released"}

\* analyze_video has returned False on an openable clip with a box set whose
\* first frame exists: the reference index points past the end of the clip.
C3_Witness ==
    /\ AnalyzeOver
    /\ an.pc = "returned"
    /\ an.result = FALSE
    /\ ~AnalyzeUnset
    /\ ~AnalyzeUnopenable
    /\ Len(an.video.frames) > 0

\* The box the search window of frame k+1 (1-based k frames scanned) is
\* anchored at: the box matched in the latest matched frame among 1..k, or the
\* configured box when none matched.
RECURSIVE AnchorAfter(_)
AnchorAfter(k) ==
    IF k = 0 THEN an.bbox
    ELSE LET m == TrackFrame(an.video.frames[k], template, AnchorAfter(k - 1))
         IN  IF m # NoneMatch THEN m ELSE AnchorAfter(k - 1)

\* Frame k (1-based) is one on which neither search finds a match.
TrackingLostAt(k) ==
    /\ MatchTemplate(an.video.frames[k], template, SearchRegion(AnchorAfter(k - 1))) = NoneMatch
    /\ MatchTemplate(an.video.frames[k], template, NoneBox) = NoneMatch

\* C4: during and after the scan of analyze_video, every scanned frame on
\* which neither search matched has the offset and box of the frame before it,
\* or (0,0) and the configured box when it is the first frame; the pass goes
\* on (it raises only from the progress division); and the next search window
\* is anchored at the last matched box.
C4_TrackingLoss ==
    (ret.op = "analyze_video" /\ an.cap # "none" /\ template.set) =>
        /\ \A k \in 1..Len(offsets) :
              TrackingLostAt(k) =>
                  IF k > 1
                  THEN offsets[k] = offsets[k - 1] /\ tracking_boxes[k] = tracking_boxes[k - 1]
                  ELSE offsets[k] = <<0, 0>> /\ tracking_boxes[k] = an.bbox
        /\ an.frame_idx = Len(offsets)
        /\ an.last_box = AnchorAfter(an.frame_idx)
        /\ an.pc = "raised" => (an.cb /\ an.video.frame_count = 0)

\* A scan in which the second frame was lost after a first frame matched with
\* a non-zero offset, and the scan went on to return True.
C4_Witness ==
    /\ ret.op = "analyze_video"
    /\ an.pc = "returned"
    /\ an.result = TRUE
    /\ Len(offsets) = 2
    /\ TrackingLostAt(2)
    /\ ~TrackingLostAt(1)
    /\ offsets[2] # <<0, 0>>

\* C5 as stated: apply_stabilization returns its input frame whenever the
\* stabilizer is not Analyzed or frame_idx is not in 0..frame_count-1.
C5_Original ==
    (ret.op = "apply_stabilization" /\ (ret.was # "Analyzed" \/ ret.idx \notin 0..(Len(offsets) - 1)))
        => ret.val = Unmodified(ret.frame)

\* C6: for the index of an analysed frame, apply_stabilization returns the
\* input frame exactly when |dx| < 0.5 and |dy| < 0.5 (doubled: both are 0),
\* and otherwise a frame of the same width and height translated by (dx, dy).
C6_ApplyThreshold ==
    (ret.op = "apply_stabilization" /\ analyzed /\ ret.idx \in 0..(Len(offsets) - 1)) =>
        LET off == offsets[ret.idx + 1]
            small == off[1] = 0 /\ off[2] = 0
        IN  /\ ret.val.kind = "frame"
            /\ small <=> ret.val.frame = ret.frame
            /\ ~small =>
                  /\ ret.val.frame.w = ret.frame.w
                  /\ ret.val.frame.h = ret.frame.h
                  /\ ret.val.frame.tx = ret.frame.tx + off[1]
                  /\ ret.val.frame.ty = ret.frame.ty + off[2]

\* apply_stabilization has translated a frame whose offset is exactly half a pixel.
C6_Witness ==
    /\ ret.op = "apply_stabilization"
    /\ analyzed
    /\ ret.idx \in 0..(Len(offsets) - 1)
    /\ offsets[ret.idx + 1] = <<1, 0>>
    /\ ret.val.frame # ret.frame

----------------------------------------------------------------------------
(* src/utils/validators.py and the size computations of the export jobs,   *)
(* applied to inputs drawn from bounded sets; ret holds the call and its   *)
(* result.                                                                  *)

\* The width clamped to the frame width instead of to what is left of x.
ValidateCropRegionWide(x, y, width, height, frame_width, frame_height) ==
    LET x1 == Max(0, Min(x, frame_width - 1))
        y1 == Max(0, Min(y, frame_height - 1))
    IN  <<x1, y1, Max(1, Min(width, frame_width)), Max(1, Min(height, frame_height - y1))>>

\* validate_crop_region(x, y, width, height, frame_width, frame_height)
ValidateCropRegion(x, y, width, height, frame_width, frame_height) ==
    LET x1 == Max(0, Min(x, frame_width - 1))
        y1 == Max(0, Min(y, frame_height - 1))
    IN  <<x1, y1, Max(1, Min(width, frame_width - x1)), Max(1, Min(height, frame_height - y1))>>

CropInputs == (-1)..CropMax
Dims == 1..MaxDim

\* A fresh stabilizer and an idle processor: every variable but ret.
Fresh ==
    /\ bounding_box = NoneBox
    /\ reference_frame_idx = 0
    /\ border_mode = "transparent"
    /\ offsets = <<>>
    /\ tracking_boxes = <<>>
    /\ analyzed = FALSE
    /\ reference_center = NoneCenter
    /\ template = NoTemplate
    /\ an = AnIdle
    /\ cancel_event = FALSE
    /\ is_processing = FALSE
    /\ job = [t \in Workers |-> JobIdle]
    /\ started = 0

\* The arguments of one call of validate_crop_region.
InitCrop ==
    /\ Fresh
    /\ ret \in [op : {"args"}, x : CropInputs, y : CropInputs, w : CropInputs, h : CropInputs,
                fw : Dims, fh : Dims]

\* The call as process makes it (lines 147-152), and the same call on its result.
CallValidateCropRegion ==
    /\ ret.op = "args"
    /\ ret' = [op |-> "validate_crop_region", x |-> ret.x, y |-> ret.y, w |-> ret.w, h |-> ret.h,
               fw |-> ret.fw, fh |-> ret.fh,
               val |-> ValidateCropRegion(ret.x, ret.y, ret.w, ret.h, ret.fw, ret.fh),
               again |-> LET r == ValidateCropRegion(ret.x, ret.y, ret.w, ret.h, ret.fw, ret.fh)
                         IN  ValidateCropRegion(r[1], r[2], r[3], r[4], ret.fw, ret.fh)]
    /\ UNCHANGED <<stabVars, an, procVars>>

NextCrop == CallValidateCropRegion

SpecCrop == InitCrop /\ [][NextCrop]_vars

\* Lines 159-172 (process) and 396-403 (export_image_sequence): the size every
\* frame is resized to, <<>> (None) when the job does not resize.  resize_width
\* 0 stands for an option left unset.  int(output_height * scale) is taken on
\* the exact product.
TargetSize(kind, resize_width, output_width, output_height) ==
    IF resize_width # 0 /\ resize_width < output_width
    THEN LET target_width == resize_width
             target_height == (output_height * resize_width) \div output_width
         IN  IF kind = "process"
             THEN <<IF target_width % 2 # 0 THEN target_width - 1 ELSE target_width,
                    IF target_height % 2 # 0 THEN target_height - 1 ELSE target_height>>
             ELSE <<target_width, target_height>>
    ELSE <<>>

\* The options and the cropped size of one job.
InitResize ==
    /\ Fresh
    /\ ret \in [op : {"args"}, kind : JobKinds, resize_width : 0..SizeMax,
                output_width : 1..SizeMax, output_height : 1..SizeMax]

CallTargetSize ==
    /\ ret.op = "args"
    /\ ret' = [op |-> "target_size", kind |-> ret.kind, resize_width |-> ret.resize_width,
               output_width |-> ret.output_width, output_height |-> ret.output_height,
               val |-> TargetSize(ret.kind, ret.resize_width, ret.output_width, ret.output_height)]
    /\ UNCHANGED <<stabVars, an, procVars>>

NextResize == CallTargetSize

SpecResize == InitResize /\ [][NextResize]_vars

----------------------------------------------------------------------------
(* The tail of the frame loop: what is done to the RGBA frame process_frame  *)
(* returned before it is handed to the sink.  A frame is a row of pixels    *)
(* [r, g, b, a] with 8-bit channels.                                        *)

RECURSIVE BitAnd(_, _)
BitAnd(a, b) ==
    IF a = 0 \/ b = 0 THEN 0
    ELSE (a % 2) * (b % 2) + 2 * BitAnd(a \div 2, b \div 2)

\* Lines 262-263: rgba[:, :, 3] = cv2.bitwise_and(rgba[:, :, 3], stab_alpha);
\* stab_alpha is <<>> (None) when the stabilizer returned no alpha channel.
MergeStabAlpha(rgba, stab_alpha) ==
    IF stab_alpha = <<>> THEN rgba
    ELSE [i \in 1..Len(rgba) |-> [rgba[i] EXCEPT !.a = BitAnd(@, stab_alpha[i])]]

\* Lines 266-267: cv2.resize(..., INTER_AREA) to half the width: each output
\* pixel is the rounded mean of two input pixels, channel by channel.
Mean2(a, b) == (a + b + 1) \div 2
ResizeArea(rgba) ==
    [i \in 1..(Len(rgba) \div 2) |->
        [r |-> Mean2(rgba[2 * i - 1].r, rgba[2 * i].r), g |-> Mean2(rgba[2 * i - 1].g, rgba[2 * i].g),
         b |-> Mean2(rgba[2 * i - 1].b, rgba[2 * i].b), a |-> Mean2(rgba[2 * i - 1].a, rgba[2 * i].a)]]

\* The frame written with the colour of transparent pixels left in place.
KeepTransparent(rgba) == rgba

\* Lines 291-292 / 473-474: rgba[rgba[:, :, 3] == 0] = [0, 0, 0, 0]
ZeroTransparent(rgba) ==
    [i \in 1..Len(rgba) |->
        IF rgba[i].a = 0 THEN [r |-> 0, g |-> 0, b |-> 0, a |-> 0] ELSE rgba[i]]

\* Line 479: cv2.cvtColor(rgba, cv2.COLOR_RGBA2BGRA) before cv2.imwrite.
SwapRedBlue(rgba) == [i \in 1..Len(rgba) |-> [rgba[i] EXCEPT !.r = rgba[i].b, !.b = rgba[i].r]]

\* Lines 262-295 / 463-480: the frame handed to the sink in transparent mode.
SinkFrame(kind, rgba, stab_alpha, resize) ==
    LET merged == MergeStabAlpha(rgba, stab_alpha)
        sized == IF resize THEN ResizeArea(merged) ELSE merged
    IN  IF kind = "process" THEN ZeroTransparent(sized) ELSE SwapRedBlue(ZeroTransparent(sized))

\* The pixels process_frame may return and the alpha values of a warped frame.
Colours == {<<0, 0, 0>>, <<10, 200, 30>>}
Alphas == {0, 1, 255}
Pixels == {[r |-> c[1], g |-> c[2], b |-> c[3], a |-> a] : c \in Colours, a \in Alphas}
RgbaFrames == {<<p, q>> : p \in Pixels, q \in Pixels}
StabAlphas == {<<>>} \cup {<<a, b>> : a \in {0, 254, 255}, b \in {255}}

InitSink ==
    /\ Fresh
    /\ ret \in [op : {"args"}, kind : JobKinds, rgba : RgbaFrames, stab_alpha : StabAlphas,
                resize : BOOLEAN]

CallSinkFrame ==
    /\ ret.op = "args"
    /\ ret' = [op |-> "sink_frame", kind |-> ret.kind, rgba |-> ret.rgba,
               stab_alpha |-> ret.stab_alpha, resize |-> ret.resize,
               val |-> SinkFrame(ret.kind, ret.rgba, ret.stab_alpha, ret.resize)]
    /\ UNCHANGED <<stabVars, an, procVars>>

NextSink == CallSinkFrame

SpecSink == InitSink /\ [][NextSink]_vars

----------------------------------------------------------------------------
(* ChromaKeyProcessor (src/processing/chroma_key.py).  A frame is one row of *)
(* pixels, each given by the <<H, S, V>> that cv2.cvtColor(BGR2HSV) computes *)
(* for it; a mask is a row of 8-bit values.  On a one-row image the 2-D      *)
(* kernels act along the row only.                                           *)

SetMin(S) == CHOOSE x \in S : \A y \in S : x <= y
SetMax(S) == CHOOSE x \in S : \A y \in S : x >= y

\* cv2.inRange with the hue band read as circular when h_min > h_max.
InRangeCircular(p, s) ==
    /\ IF s.h_min <= s.h_max THEN s.h_min <= p[1] /\ p[1] <= s.h_max
       ELSE p[1] >= s.h_min \/ p[1] <= s.h_max
    /\ s.s_min <= p[2] /\ p[2] <= s.s_max
    /\ s.v_min <= p[3] /\ p[3] <= s.v_max

\* cv2.inRange(hsv, lower, upper) for one pixel: every channel within its
\* inclusive bounds.
InRange(p, s) ==
    /\ s.h_min <= p[1] /\ p[1] <= s.h_max
    /\ s.s_min <= p[2] /\ p[2] <= s.s_max
    /\ s.v_min <= p[3] /\ p[3] <= s.v_max

\* create_mask: inRange gives 255 inside the band, bitwise_not inverts it.
CreateMask(frame, s) ==
    [i \in 1..Len(frame) |-> 255 - (IF InRange(frame[i], s) THEN 255 ELSE 0)]

\* cv2.erode / cv2.dilate with the (2k+1) x (2k+1) elliptical kernel, whose
\* middle row is full: the minimum / maximum over the pixels of the row within
\* distance k; pixels outside the image do not count.
Window(i, k, n) == {j \in 1..n : i - k <= j /\ j <= i + k}
Erode(mask, k) == [i \in 1..Len(mask) |-> SetMin({mask[j] : j \in Window(i, k, Len(mask))})]
Dilate(mask, k) == [i \in 1..Len(mask) |-> SetMax({mask[j] : j \in Window(i, k, Len(mask))})]

\* refine_mask: erode when erode_size > 0, then dilate when dilate_size > 0.
RefineMask(mask, s) ==
    LET eroded == IF s.erode_size > 0 THEN Erode(mask, s.erode_size) ELSE mask
    IN  IF s.dilate_size > 0 THEN Dilate(eroded, s.dilate_size) ELSE eroded

\* The border of cv2.GaussianBlur (BORDER_REFLECT_101): the index mirrored
\* back into 1..n without repeating the edge pixel.
Reflect101(i, n) ==
    IF n = 1 THEN 1 ELSE IF i < 1 THEN 2 - i ELSE IF i > n THEN 2 * n - i ELSE i

\* apply_feathering: nothing when feather <= 0; for feather = 1 the 3 x 3
\* Gaussian kernel, (1 2 1) / 4 along the row, rounded to nearest.
ApplyFeathering(mask, s) ==
    IF s.feather <= 0 THEN mask
    ELSE [i \in 1..Len(mask) |->
            (mask[Reflect101(i - 1, Len(mask))] + 2 * mask[i]
                + mask[Reflect101(i + 1, Len(mask))] + 2) \div 4]

\* The colour of a frame: the pixels it started from and the colour
\* corrections applied to them, in order, each with the mask it was given.
\* suppress_spill and defringe_transparent_areas return their input frame
\* when their setting is <= 0.
SuppressSpill(color, mask, s) ==
    IF s.spill_suppression <= 0 THEN color
    ELSE [color EXCEPT !.ops = Append(@, <<"suppress_spill", mask>>)]

DefringeTransparentAreas(color, mask, s) ==
    IF s.defringe_transparent <= 0 THEN color
    ELSE [color EXCEPT !.ops = Append(@, <<"defringe_transparent_areas", mask>>)]

\* The mask feathered first and refined afterwards.
FinalMaskFeatherFirst(frame, s) == RefineMask(ApplyFeathering(CreateMask(frame, s), s), s)

\* process_frame, lines 253-256: create_mask, refine_mask, apply_feathering.
FinalMask(frame, s) == ApplyFeathering(RefineMask(CreateMask(frame, s), s), s)

\* process_frame: the RGBA frame.  channels names, for the three colour
\* channels of the output, the channel of the BGR frame it is taken from
\* (1 = B, 2 = G, 3 = R).
ProcessFrame(frame, s) ==
    LET mask == FinalMask(frame, s)
        spilled == SuppressSpill([base |-> frame, ops |-> <<>>], mask, s)
    IN  [color |-> DefringeTransparentAreas(spilled, mask, s),
         channels |-> <<3, 2, 1>>,
         alpha |-> mask]

\* frame[y:y+h, x:x+w] on a one-row image.
Crop(row, x, w) == SubSeq(row, x + 1, x + w)

\* rgba[:, x:x+w] of a frame process_frame returned.  defringe_transparent_areas
\* works pixel by pixel on frame and mask, so its cropped result is its result
\* on the cropped frame and mask; suppress_spill reads the mask through 5 x 5
\* kernels, so its cropped result stays the crop of what it made of the
\* uncropped mask.
CropOp(op, x, w) ==
    IF op[1] = "defringe_transparent_areas" THEN <<op[1], Crop(op[2], x, w)>>
    ELSE <<op[1], op[2], "cropped", x, w>>

CropRgba(rgba, x, w) ==
    IF x = 0 /\ w = Len(rgba.alpha) THEN rgba
    ELSE [color |-> [base |-> Crop(rgba.color.base, x, w),
                     ops |-> [k \in 1..Len(rgba.color.ops) |-> CropOp(rgba.color.ops[k], x, w)]],
          channels |-> rgba.channels,
          alpha |-> Crop(rgba.alpha, x, w)]

\* The pixels of the frames: inside the band, on its lower corner, one hue
\* step below it, and a grey.
HsvPixels == {<<60, 255, 255>>, <<35, 50, 50>>, <<34, 255, 255>>, <<0, 0, 128>>}
RECURSIVE Rows(_, _)
Rows(S, n) == IF n = 0 THEN {<<>>} ELSE {Append(r, e) : r \in Rows(S, n - 1), e \in S}
KeyFrames == Rows(HsvPixels, RowLen)

\* ChromaKeySettings: the default band, or one with h_min > h_max; sizes 0 or 1;
\* the two strengths off (0) or on (1).
KeySettings ==
    [h_min : {35}, h_max : {85, 34}, s_min : {50}, s_max : {255}, v_min : {50}, v_max : {255},
     erode_size : {0, 1}, dilate_size : {0, 1}, feather : {0, 1},
     spill_suppression : {0, 1}, defringe_transparent : {0, 1}]

\* The crop rectangles that lie inside the row.
KeyCrops == {c \in (0..RowLen) \X (1..RowLen) : c[1] + c[2] <= RowLen}

InitKey ==
    /\ Fresh
    /\ ret \in [op : {"args"}, frame : KeyFrames, settings : KeySettings, crop : KeyCrops]

CallCreateMask ==
    /\ ret.op = "args"
    /\ ret' = [op |-> "create_mask", frame |-> ret.frame, settings |-> ret.settings,
               val |-> CreateMask(ret.frame, ret.settings)]
    /\ UNCHANGED <<stabVars, an, procVars>>

CallProcessFrame ==
    /\ ret.op = "args"
    /\ ret' = [op |-> "process_frame", frame |-> ret.frame, settings |-> ret.settings,
               val |-> ProcessFrame(ret.frame, ret.settings)]
    /\ UNCHANGED <<stabVars, an, procVars>>

\* The frame cropped and then keyed, as the jobs do it
\* (video_processor.py:250-259), and the frame keyed and then cropped.
CallCropAndKey ==
    /\ ret.op = "args"
    /\ ret' = [op |-> "crop_and_key", frame |-> ret.frame, settings |-> ret.settings,
               crop |-> ret.crop,
               crop_then_key |-> ProcessFrame(Crop(ret.frame, ret.crop[1], ret.crop[2]), ret.settings),
               key_then_crop |-> CropRgba(ProcessFrame(ret.frame, ret.settings), ret.crop[1], ret.crop[2])]
    /\ UNCHANGED <<stabVars, an, procVars>>

NextKey ==
    \/ CallCreateMask
    \/ CallProcessFrame
    \/ CallCropAndKey

SpecKey == InitKey /\ [][NextKey]_vars

\* The export thread next to the UI thread's stabilization panel.
UiVideos == {v \in JobVideos : v.openable /\ Len(v.frames) <= MaxFrames /\ v.frame_count = Len(v.frames)}

NextUi ==
    \/ \E box \in JobBoxes, r \in RefIdxs : UiSelectRegion(box, r)
    \/ UiResetStab
    \/ \E req \in Requests(UiVideos, {TRUE}) : JobBegin(1, req)
    \/ JobOpen(1)
    \/ JobSetup(1)
    \/ JobAnalysis(1)
    \/ JobWriter(1)
    \/ JobCheck(1)
    \/ JobRead(1)
    \/ JobApplyRead(1)
    \/ JobFinally(1)

SpecUi == InitJob /\ [][NextUi]_vars

----------------------------------------------------------------------------
(* Claims about VideoProcessor jobs (SpecJob, SpecConc, SpecUi).            *)

Released(j) == j.cap \in {"none", "released"} /\ j.writer \in {"none", "closed"}

C8_Original == \A t \in Workers : job[t].late <= 1

\* C9: when process / export_image_sequence is over, however it ended, its
\* decoder and encoder are released and is_processing is false; when
\* analyze_video is over its decoder is released.
C9_HandlesReleased ==
    /\ job[1].pc = "done" => Released(job[1]) /\ ~is_processing
    /\ an.pc \in {"returned", "raised"} => an.cap \in {"none", "released"}

C9_Witness ==
    /\ job[1].pc = "done"
    /\ job[1].outcome = "raised"
    /\ job[1].cap = "released"
    /\ job[1].writer = "closed"
    /\ job[1].written = 1

\* C10 as stated: at most one job is active, and is_processing is true exactly
\* while a job is active.
C10_Original ==
    /\ Cardinality({t \in Workers : Active(t)}) <= 1
    /\ is_processing <=> (\E t \in Workers : Active(t))

\* C11 as stated: while the export thread is between apply_stabilization's
\* bounds check and its indexed read, the arrays are as the check saw them:
\* the stabilizer is still analysed and the index is still inside _offsets.
C11_Original ==
    \A t \in Workers :
        job[t].pc = "apply_read" => analyzed /\ JobFrameIdx(job[t]) < Len(offsets)

\* What apply_stabilization makes of a decoded frame with the offset off.
Stabilised(off) ==
    IF Insignificant(off) THEN DecodedFrame ELSE Warp(DecodedFrame, off, border_mode)

C13_Original ==
    /\ (Active(1) /\ (~job[1].in_ok \/ ~job[1].out_ok)) =>
            /\ job[1].pc \in {"open", "finally"}
            /\ job[1].frame_count = 0
            /\ job[1].written = 0
            /\ job[1].writer = "none"
            /\ job[1].pc = "finally" => job[1].outcome = "raised"
    /\ job[1].pc = "done" => ~is_processing

InUnitInterval(p) == p[2] > 0 /\ 0 <= p[1] /\ p[1] <= p[2]

\* C14 as stated: every progress value passed to the callback, by the job's
\* frame loop or by the analysis pass, is a fraction in [0, 1].
C14_Original ==
    /\ \A t \in Workers : job[t].progress # <<>> => InUnitInterval(job[t].progress)
    /\ an.progress # <<>> => InUnitInterval(an.progress)

----------------------------------------------------------------------------
(* Claims about the validators and the frame pipeline.                      *)

\* C15: validate_crop_region returns a rectangle of at least one pixel that
\* lies inside the frame, and maps its own result to itself.
C15_CropInsideFrame ==
    ret.op = "validate_crop_region" =>
        /\ 0 <= ret.val[1]
        /\ 0 <= ret.val[2]
        /\ ret.val[3] >= 1
        /\ ret.val[4] >= 1
        /\ ret.val[1] + ret.val[3] <= ret.fw
        /\ ret.val[2] + ret.val[4] <= ret.fh
        /\ ret.again = ret.val

\* A rectangle that starts past the right edge, wider than the frame, with a
\* height below 1, has been clamped.
C15_Witness ==
    /\ ret.op = "validate_crop_region"
    /\ ret.x > ret.fw
    /\ ret.w > ret.fw
    /\ ret.h < 1
    /\ ret.y < 0
    /\ ret.val = <<ret.fw - 1, 0, 1, 1>>

\* C16 as stated: whenever a job resizes, video or PNG sequence, the width
\* and the height it resizes to are even, the height being the cropped height
\* scaled by resize_width / cropped width and rounded down to an even number.
C16_Original ==
    (ret.op = "target_size" /\ ret.val # <<>>) =>
        /\ ret.val[1] % 2 = 0
        /\ ret.val[2] % 2 = 0
        /\ ret.val[1] <= ret.resize_width
        /\ ret.val[2] * ret.output_width <= ret.output_height * ret.resize_width

\* C17: in every frame handed to the sink in transparent mode, a pixel with
\* alpha 0 has R = G = B = 0, with or without a stabilization alpha merged in
\* and with or without the resize.
C17_TransparentIsBlack ==
    ret.op = "sink_frame" =>
        \A i \in 1..Len(ret.val) :
            ret.val[i].a = 0 => ret.val[i].r = 0 /\ ret.val[i].g = 0 /\ ret.val[i].b = 0

\* A coloured pixel with alpha 1 whose alpha the stabilization alpha 254
\* masks to 0 is written as black.
C17_Witness ==
    /\ ret.op = "sink_frame"
    /\ ~ret.resize
    /\ ret.stab_alpha # <<>>
    /\ ret.stab_alpha[1] = 254
    /\ ret.rgba[1] = [r |-> 10, g |-> 200, b |-> 30, a |-> 1]
    /\ ret.val[1] = [r |-> 0, g |-> 0, b |-> 0, a |-> 0]

\* C18 as stated: the alpha channel of process_frame's output is
\* refine(feather(create_mask(frame))).
C18_Original ==
    ret.op = "process_frame" =>
        ret.val.alpha = RefineMask(ApplyFeathering(CreateMask(ret.frame, ret.settings), ret.settings),
                                   ret.settings)

\* C18: process_frame computes its mask as feather(refine(create_mask(frame))):
\* the raw mask is eroded / dilated first and the result is feathered; the
\* colour is defringe(suppress_spill(frame, mask), mask) with that final mask;
\* the output's alpha channel is that mask and its colour channels are R, G, B.
C18_MaskThenColour ==
    ret.op = "process_frame" =>
        LET s == ret.settings
            mask == ApplyFeathering(RefineMask(CreateMask(ret.frame, s), s), s)
            ops == (IF s.spill_suppression > 0 THEN <<<<"suppress_spill", mask>>>> ELSE <<>>)
                   \o (IF s.defringe_transparent > 0 THEN <<<<"defringe_transparent_areas", mask>>>> ELSE <<>>)
        IN  /\ ret.val.alpha = mask
            /\ ret.val.color.base = ret.frame
            /\ ret.val.color.ops = ops
            /\ ret.val.channels = <<3, 2, 1>>

\* A frame with a keyed pixel at its left edge, all three mask steps and both
\* colour corrections on: the mask is soft at the edge.
C18_Witness ==
    /\ ret.op = "process_frame"
    /\ ret.settings.erode_size = 1 /\ ret.settings.dilate_size = 1 /\ ret.settings.feather = 1
    /\ ret.settings.spill_suppression = 1 /\ ret.settings.defringe_transparent = 1
    /\ ret.frame = <<<<60, 255, 255>>, <<0, 0, 128>>, <<0, 0, 128>>>>
    /\ ret.val.alpha = <<128, 191, 255>>
    /\ Len(ret.val.color.ops) = 2

\* C19: create_mask gives 0 to a pixel exactly when its H, S and V each lie
\* in the inclusive band of the settings and 255 to every other pixel; with
\* h_min > h_max no pixel is keyed.
C19_LiteralBand ==
    ret.op = "create_mask" =>
        LET s == ret.settings
        IN  \A i \in 1..Len(ret.frame) :
                LET p == ret.frame[i]
                    inside == /\ p[1] \in s.h_min..s.h_max
                              /\ p[2] \in s.s_min..s.s_max
                              /\ p[3] \in s.v_min..s.v_max
                IN  /\ ret.val[i] \in {0, 255}
                    /\ ret.val[i] = 0 <=> inside
                    /\ s.h_min > s.h_max => ret.val[i] = 255

\* With the band 35..34, a pixel of hue 34 stays opaque, next to a pixel on
\* the corner of the default band that would be keyed by it.
C19_Witness ==
    /\ ret.op = "create_mask"
    /\ ret.settings.h_min > ret.settings.h_max
    /\ ret.frame[1] = <<34, 255, 255>>
    /\ ret.frame[2] = <<35, 50, 50>>
    /\ ret.val = [i \in 1..RowLen |-> 255]

\* C20: for every frame, settings and crop rectangle inside the
\* frame, keying the cropped frame gives the alpha channel that cropping the
\* keyed frame gives.
C20_Original ==
    ret.op = "crop_and_key" => ret.crop_then_key.alpha = ret.key_then_crop.alpha

----------------------------------------------------------------------------
(* PointStabilizer: set_tracking_point, get_tracked_box and                  *)
(* preview_stabilization, and the stabilizer driven through all its calls.   *)

TrackingBoxSize == 50       \* set_tracking_point: box_size = 50

\* set_tracking_point(x, y): the box handed to set_bounding_box.
TrackingPointBox(p) ==
    <<Max(0, p[1] - TrackingBoxSize \div 2), Max(0, p[2] - TrackingBoxSize \div 2),
      TrackingBoxSize, TrackingBoxSize>>

\* The points a caller passes: one whose box lies inside the frame, one near
\* the lower left corner whose box reaches below the frame.
TrackingPoints == {<<45, 55>>, <<10, 100>>}

\* get_tracked_box(frame_idx): a box, None, or "IndexError".
GetTrackedBox(idx) ==
    IF ~analyzed \/ idx >= Len(tracking_boxes) THEN [kind |-> "value", value |-> bounding_box]
    ELSE IF ~PyIndexOk(idx, Len(tracking_boxes)) THEN [kind |-> "IndexError", value |-> NoneBox]
    ELSE [kind |-> "value", value |-> PyIndex(tracking_boxes, idx)]

\* The first_frame argument of preview_stabilization: None, or a decoded frame.
FirstFrames ==
    {[given |-> FALSE, content |-> Blank]}
    \cup {[given |-> TRUE, content |-> k] : k \in {<<0, 0>>, Blank}}

\* What the frame handed to preview_stabilization shows.
PreviewContents == {<<0, 0>>, <<4, -3>>, Blank}

\* _track_single_frame(first_frame, current_frame): <<offset, box>>, or <<>>
\* for (None, None).
TrackSingleFrame(first, current) ==
    IF bounding_box = NoneBox THEN <<>>
    ELSE LET t == ExtractTemplate(first, bounding_box)
             m == MatchTemplate(current, t, NoneBox)
         IN  IF m # NoneMatch THEN MatchedEntry(m, Center2(bounding_box)) ELSE <<>>

\* The offset choice that tracks from first_frame at the reference index too.
PreviewOffsetTracksReference(idx, content, first) ==
    IF analyzed /\ idx < Len(offsets)
    THEN IF PyIndexOk(idx, Len(offsets))
         THEN [kind |-> "value", source |-> "analysis", off |-> PyIndex(offsets, idx)]
         ELSE [kind |-> "IndexError", source |-> "analysis", off |-> <<0, 0>>]
    ELSE IF first.given
    THEN LET r == TrackSingleFrame(first.content, content)
         IN  IF r # <<>> THEN [kind |-> "value", source |-> "track", off |-> r[1]]
             ELSE [kind |-> "value", source |-> "track_failed", off |-> <<0, 0>>]
    ELSE [kind |-> "value", source |-> "none", off |-> <<0, 0>>]

\* Lines 379-396: the offset the preview uses and where it comes from.
PreviewOffset(idx, content, first) ==
    IF analyzed /\ idx < Len(offsets)
    THEN IF PyIndexOk(idx, Len(offsets))
         THEN [kind |-> "value", source |-> "analysis", off |-> PyIndex(offsets, idx)]
         ELSE [kind |-> "IndexError", source |-> "analysis", off |-> <<0, 0>>]
    ELSE IF first.given /\ idx # reference_frame_idx
    THEN LET r == TrackSingleFrame(first.content, content)
         IN  IF r # <<>> THEN [kind |-> "value", source |-> "track", off |-> r[1]]
             ELSE [kind |-> "value", source |-> "track_failed", off |-> <<0, 0>>]
    ELSE [kind |-> "value", source |-> "none", off |-> <<0, 0>>]

\* Line 399: abs(dx) > 0.5 or abs(dy) > 0.5.
PreviewTranslates(off) == Abs(off[1]) > 1 \/ Abs(off[2]) > 1

\* int(c) of a doubled coordinate: truncation toward zero.
IntOfHalf(c2) == IF c2 >= 0 THEN c2 \div 2 ELSE -((-c2) \div 2)

\* Lines 383-385: the reference centre after the preview has made sure of it.
PreviewReferenceCenter ==
    IF reference_center = NoneCenter THEN Center2(bounding_box) ELSE reference_center

\* preview_stabilization(frame, frame_idx, draw_tracking_point, first_frame):
\* the frame returned, the offset used and its source, and where the
\* crosshair was drawn (<<>> when it was not).
PreviewStabilization(frame, content, idx, draw, first) ==
    IF bounding_box = NoneBox
    THEN [kind |-> "frame", frame |-> frame, source |-> "no_box", off |-> <<0, 0>>, marker |-> <<>>]
    ELSE LET o == PreviewOffset(idx, content, first)
             c == PreviewReferenceCenter
         IN  IF o.kind = "IndexError"
             THEN [kind |-> "IndexError", frame |-> frame, source |-> o.source,
                   off |-> <<0, 0>>, marker |-> <<>>]
             ELSE [kind |-> "frame",
                   frame |-> IF PreviewTranslates(o.off) THEN Warp(frame, o.off, "transparent")
                             ELSE frame,
                   source |-> o.source, off |-> o.off,
                   marker |-> IF draw THEN <<IntOfHalf(c[1]), IntOfHalf(c[2])>> ELSE <<>>]

CallSetTrackingPoint(p) ==
    /\ an.pc # "loop"
    /\ SetBoundingBox(TrackingPointBox(p), 0)
    /\ ret' = [op |-> "set_tracking_point", point |-> p, was |-> StateName]
    /\ an' = AnIdle
    /\ UNCHANGED procVars

CallGetTrackedBox(idx) ==
    /\ an.pc # "loop"
    /\ ret' = [op |-> "get_tracked_box", idx |-> idx, val |-> GetTrackedBox(idx), was |-> StateName]
    /\ an' = AnIdle
    /\ UNCHANGED stabVars
    /\ UNCHANGED procVars

CallPreviewStabilization(frame, content, idx, draw, first) ==
    /\ an.pc # "loop"
    /\ ret' = [op |-> "preview_stabilization", idx |-> idx, frame |-> frame,
               content |-> content, draw |-> draw, first |-> first,
               val |-> PreviewStabilization(frame, content, idx, draw, first),
               was |-> StateName]
    /\ reference_center' = IF bounding_box = NoneBox THEN reference_center
                           ELSE PreviewReferenceCenter
    /\ an' = AnIdle
    /\ UNCHANGED <<bounding_box, reference_frame_idx, border_mode, offsets,
                   tracking_boxes, analyzed, template>>
    /\ UNCHANGED procVars

\* The clips the analysis runs on here: at most MaxFrames frames.
StabVideos == {v \in Videos : Len(v.frames) <= MaxFrames}

\* The preview is handed decoded BGR frames.
PreviewFrames == {f \in InputFrames : f.ch = 3}

NextStab ==
    \/ \E box \in Boxes, r \in RefIdxs : CallSetBoundingBox(box, r)
    \/ \E p \in TrackingPoints : CallSetTrackingPoint(p)
    \/ CallReset
    \/ \E v \in StabVideos : CallAnalyzeVideo(v, FALSE)
    \/ StepAnalyzeVideo
    \/ \E i \in FrameIdxs : CallGetOffset(i)
    \/ \E i \in FrameIdxs : CallGetTrackedBox(i)
    \/ \E f \in InputFrames, i \in FrameIdxs : CallApplyStabilization(f, i)
    \/ \E f \in PreviewFrames, c \in PreviewContents, i \in FrameIdxs, d \in BOOLEAN, ff \in FirstFrames :
          CallPreviewStabilization(f, c, i, d, ff)

SpecStab == InitJob /\ [][NextStab]_vars

----------------------------------------------------------------------------
(* Template matching applied to inputs drawn from bounded sets: the template *)
(* is cut from a reference frame at a box, and a frame is searched for it    *)
(* the way one iteration of analyze_video does.                              *)

\* The configured boxes: inside the frame, larger than the frame, and the box
\* of set_tracking_point(200, 55), which lies right of the frame.
TrackBoxes == {<<20, 30, 10, 10>>, <<0, 0, FrameW + 1, FrameH>>, <<175, 30, 50, 50>>}

\* The last known box of an iteration: the configured box (first frame, or
\* nothing matched yet), or where a frame shifted by (4, -3) matched.
LastBoxes(t, box) ==
    {box} \cup (IF t.blank THEN {} ELSE {<<t.px + 4, t.py - 3, t.w, t.h>>})

\* StabilizationSettings.search_margin as callers set it: the default and two others.
SearchMarginSettings == {50, 10, 60}

TrackArgs ==
    {[op |-> "args", frame |-> f, reference |-> r, box |-> b, last_box |-> l, search_margin |-> m] :
        f \in FrameKinds, r \in {<<0, 0>>, Blank}, b \in TrackBoxes,
        l \in UNION {LastBoxes(ExtractTemplate(r2, b2), b2) : r2 \in {<<0, 0>>, Blank}, b2 \in TrackBoxes},
        m \in SearchMarginSettings}

InitTrack ==
    /\ Fresh
    /\ ret \in {a \in TrackArgs : a.last_box \in LastBoxes(ExtractTemplate(a.reference, a.box), a.box)}

\* _match_template(frame, template, None) and _match_template(frame, template,
\* search_region) with the region of lines 227-233.
CallMatchTemplate ==
    /\ ret.op = "args"
    /\ LET t == ExtractTemplate(ret.reference, ret.box)
       IN  ret' = [op |-> "match_template", frame |-> ret.frame, template |-> t,
                   search_region |-> SearchRegion(ret.last_box),
                   val |-> MatchTemplate(ret.frame, t, SearchRegion(ret.last_box)),
                   val_full |-> MatchTemplate(ret.frame, t, NoneBox)]
    /\ UNCHANGED <<stabVars, an, procVars>>

\* Lines 226-240: the search region, the constrained search and the fallback.
CallTrackFrame ==
    /\ ret.op = "args"
    /\ LET t == ExtractTemplate(ret.reference, ret.box)
       IN  ret' = [op |-> "track_frame", frame |-> ret.frame, template |-> t,
                   last_box |-> ret.last_box, search_margin |-> ret.search_margin,
                   search_region |-> SearchRegion(ret.last_box),
                   val |-> TrackFrame(ret.frame, t, ret.last_box)]
    /\ UNCHANGED <<stabVars, an, procVars>>

NextTrack ==
    \/ CallMatchTemplate
    \/ CallTrackFrame

SpecTrack == InitTrack /\ [][NextTrack]_vars

----------------------------------------------------------------------------
(* The export of a stabilized frame in transparent border mode, on one row  *)
(* of pixels and horizontal offsets: apply_stabilization, the crop, the      *)
(* keyer's output and the merge of the two alpha channels.                   *)

BorderW == 3        \* the width of the decoded row
MaxOff2 == 3        \* offsets range over -MaxOff2..MaxOff2 half pixels

\* The alpha channel after cv2.warpAffine(frame, [[1, 0, dx], [0, 1, 0]]) of a
\* frame promoted to BGRA (alpha 255), BORDER_CONSTANT (0, 0, 0, 0), bilinear:
\* output pixel i reads the source at i - dx; a whole-pixel position is copied
\* or is border, a half-pixel position is the rounded mean of its two
\* neighbours, each 255 inside the frame and 0 outside.
WarpAlpha(off2, w) ==
    [i \in 1..w |->
        LET pos2 == 2 * (i - 1) - off2
            In(s) == IF 0 <= s /\ s <= w - 1 THEN 255 ELSE 0
        IN  IF pos2 % 2 = 0 THEN In(pos2 \div 2)
            ELSE (In((pos2 - 1) \div 2) + In((pos2 + 1) \div 2) + 1) \div 2]

\* Lines 238-248: the alpha channel split off the stabilizer's frame, None
\* (<<>>) when apply_stabilization returned the frame as it was.
StabAlphaOf(off2, w) ==
    IF Insignificant(<<off2, 0>>) THEN <<>> ELSE WarpAlpha(off2, w)

\* Lines 251-256: stab_alpha[y:y+h, x:x+w]; crop is <<>> (None) or <<x, w>>.
CropStabAlpha(stab_alpha, crop) ==
    IF crop = <<>> \/ stab_alpha = <<>> THEN stab_alpha
    ELSE SubSeq(stab_alpha, crop[1] + 1, crop[1] + crop[2])

\* The crops of the row and the keyed rows process_frame may return for them.
BorderCrops == {<<>>, <<0, 2>>, <<1, 2>>}
CroppedWidth(crop) == IF crop = <<>> THEN BorderW ELSE crop[2]
KeyedRows(w) == {r \in SeqsUpTo(Pixels, w) : Len(r) = w}

InitBorder ==
    /\ Fresh
    /\ ret \in {[op |-> "args", kind |-> k, off2 |-> d, crop |-> c, rgba |-> r] :
                  k \in JobKinds, d \in (-MaxOff2)..MaxOff2, c \in BorderCrops,
                  r \in KeyedRows(2) \cup KeyedRows(BorderW)}
    /\ Len(ret.rgba) = CroppedWidth(ret.crop)

\* Lines 237-296 / 438-480 for one frame, without a resize.
CallStabilizedSink ==
    /\ ret.op = "args"
    /\ LET stab_alpha == CropStabAlpha(StabAlphaOf(ret.off2, BorderW), ret.crop)
       IN  ret' = [op |-> "stabilized_sink", kind |-> ret.kind, off2 |-> ret.off2,
                   crop |-> ret.crop, rgba |-> ret.rgba, stab_alpha |-> stab_alpha,
                   val |-> SinkFrame(ret.kind, ret.rgba, stab_alpha, FALSE)]
    /\ UNCHANGED <<stabVars, an, procVars>>

NextBorder == CallStabilizedSink

SpecBorder == InitBorder /\ [][NextBorder]_vars

----------------------------------------------------------------------------
(* process() from its path validation to the first frame it writes, for the *)
(* transparent and the stacked-mask output.                                  *)

\* SUPPORTED_OUTPUT_FORMATS
SupportedOutputFormats == {".webm"}

\* The suffixes of the output paths; the stacked export dialog supplies .mp4.
OutputSuffixes == {".webm", ".WEBM", ".mp4", ".MP4"}

\* output_path.suffix.lower()
Lower(suffix) ==
    IF suffix = ".WEBM" THEN ".webm" ELSE IF suffix = ".MP4" THEN ".mp4" ELSE suffix

\* An output path: whether it is non-empty, whether its parent exists or can
\* be created, whether the parent is writable, and its suffix.
OutputPaths == [given : BOOLEAN, parent_ok : BOOLEAN, writable : BOOLEAN, suffix : OutputSuffixes]

\* validate_output_path(path): "ok" or "ValidationError".
ValidateOutputPath(path) ==
    IF ~path.given THEN "ValidationError"
    ELSE IF ~path.parent_ok THEN "ValidationError"
    ELSE IF ~path.writable THEN "ValidationError"
    ELSE IF Lower(path.suffix) \notin SupportedOutputFormats THEN "ValidationError"
    ELSE "ok"

\* Lines 199-223: the writer process opens.
Writer(stacked_mask) ==
    IF stacked_mask
    THEN [codec |-> "libx265", pixelformat |-> "yuv420p", height_factor |-> 2]
    ELSE [codec |-> "libvpx-vp9", pixelformat |-> "yuva420p", height_factor |-> 1]

NoWriter == [codec |-> "none", pixelformat |-> "none", height_factor |-> 0]

\* Lines 269-287: the stacked frame of a keyed row: on top the colour times
\* alpha / 255 (cut to an integer by the uint8 array), below it the alpha in
\* all three channels.
StackFrame(rgba) ==
    [top |-> [i \in 1..Len(rgba) |->
                <<(rgba[i].r * rgba[i].a) \div 255, (rgba[i].g * rgba[i].a) \div 255,
                  (rgba[i].b * rgba[i].a) \div 255>>],
     bottom |-> [i \in 1..Len(rgba) |-> <<rgba[i].a, rgba[i].a, rgba[i].a>>]]

\* Lines 129-139, 199-223, 269-296: what a call of process does with its
\* paths and its first keyed frame.
ProcessFirstFrame(in_ok, path, stacked_mask, rgba) ==
    IF ~in_ok \/ ValidateOutputPath(path) # "ok"
    THEN [outcome |-> "ValidationError", writer |-> NoWriter, stacked |-> <<>>, plain |-> <<>>]
    ELSE IF stacked_mask
    THEN [outcome |-> "written", writer |-> Writer(TRUE), stacked |-> <<StackFrame(rgba)>>,
          plain |-> <<>>]
    ELSE [outcome |-> "written", writer |-> Writer(FALSE), stacked |-> <<>>,
          plain |-> ZeroTransparent(rgba)]

InitStacked ==
    /\ Fresh
    /\ ret \in [op : {"args"}, in_ok : BOOLEAN, path : OutputPaths, stacked_mask : BOOLEAN,
                rgba : RgbaFrames]

CallProcess ==
    /\ ret.op = "args"
    /\ ret' = [op |-> "process", in_ok |-> ret.in_ok, path |-> ret.path,
               stacked_mask |-> ret.stacked_mask, rgba |-> ret.rgba,
               val |-> ProcessFirstFrame(ret.in_ok, ret.path, ret.stacked_mask, ret.rgba)]
    /\ UNCHANGED <<stabVars, an, procVars>>

NextStacked == CallProcess

SpecStacked == InitStacked /\ [][NextStacked]_vars

----------------------------------------------------------------------------
(* cancel() called from a thread of its own while another thread runs jobs  *)
(* one after another on the same VideoProcessor.  cancel() is a test of      *)
(* _is_processing and then _cancel_event.set(); the job thread may run       *)
(* between the two.  ret holds the activation of cancel(): pc "set" when the *)
(* test has passed and the event is not set yet.                             *)

InCancel == ret.op = "cancel" /\ ret.pc = "set"

\* Line 50: if self._is_processing.  The job that is running is marked as
\* one during which cancel() was called.
CancelTest ==
    /\ ~InCancel
    /\ ret' = [op |-> "cancel", pc |-> IF is_processing THEN "set" ELSE "returned"]
    /\ job' = [t \in Workers |->
                 IF is_processing /\ Active(t) THEN [job[t] EXCEPT !.cancelled = TRUE] ELSE job[t]]
    /\ UNCHANGED <<stabVars, an, cancel_event, is_processing, started>>

\* Line 51: self._cancel_event.set()
CancelSet ==
    /\ InCancel
    /\ cancel_event' = TRUE
    /\ ret' = [op |-> "cancel", pc |-> "returned"]
    /\ UNCHANGED <<stabVars, an, is_processing, job, started>>

NextCancel ==
    \/ \E req \in Requests(ConcVideos, {FALSE}) : JobBegin(1, req)
    \/ JobRun(1)
    \/ CancelTest
    \/ CancelSet

SpecCancel == InitJob /\ [][NextCancel]_vars

----------------------------------------------------------------------------
(* Claims about tracking and the preview, checked under SpecStab *)

\* The locations of the whole frame where the template fits and scores at or
\* above match_threshold.
GoodLocations(frame, t) ==
    LET loc == TrueLocation(frame, t)
    IN  IF loc = NoneMatch THEN {}
        ELSE IF /\ 0 <= loc[1] /\ loc[1] + t.w <= FrameW
                /\ 0 <= loc[2] /\ loc[2] + t.h <= FrameH
        THEN {loc}
        ELSE {}

\* Whether the search region, clamped to the frame, is smaller than the template.
RegionTooSmall(t, region) ==
    \/ Min(region[3], FrameW - Max(0, region[1])) < t.w
    \/ Min(region[4], FrameH - Max(0, region[2])) < t.h

BoxInside(b) == b[1] >= 0 /\ b[2] >= 0 /\ b[1] + b[3] <= FrameW /\ b[2] + b[4] <= FrameH

\* The shift of frame k (1-based) of the analysed clip against the reference frame.
ShiftOf(k) ==
    LET f == an.video.frames[k]
        r == an.video.frames[reference_frame_idx + 1]
    IN  <<f[1] - r[1], f[2] - r[2]>>

\* The reference region as frame k shows it (the configured box for k = 0).
RegionIn(k) ==
    IF k = 0 THEN an.bbox
    ELSE <<an.bbox[1] + ShiftOf(k)[1], an.bbox[2] + ShiftOf(k)[2], an.bbox[3], an.bbox[4]>>

\* Frame k shows the reference region, translated, inside the frame, and no
\* further than the search margin from where the frame before showed it.
TranslatedWithinMargin(k) ==
    /\ an.video.frames[k] # Blank
    /\ an.video.frames[reference_frame_idx + 1] # Blank
    /\ BoxInside(RegionIn(k))
    /\ Abs(RegionIn(k)[1] - RegionIn(k - 1)[1]) <= SearchMargin
    /\ Abs(RegionIn(k)[2] - RegionIn(k - 1)[2]) <= SearchMargin

\* C21: when the frames of a clip show the reference region translated by a
\* known shift, each step within the search margin, analyze_video records for
\* every such frame the offset minus that shift (here exactly; offsets are
\* doubled) and the translated box, for every reference index and every box
\* inside the frame.
C21_OffsetsNegateShift ==
    (ret.op = "analyze_video" /\ an.cap # "none" /\ template.set /\ BoxInside(an.bbox)) =>
        \A i \in 1..Len(offsets) :
            (\A k \in 1..i : TranslatedWithinMargin(k)) =>
                /\ offsets[i] = <<-2 * ShiftOf(i)[1], -2 * ShiftOf(i)[2]>>
                /\ tracking_boxes[i] = RegionIn(i)

\* The box was selected on the second frame, which shows the scene moved by
\* (4, -3) against the first: the first frame's offset is (4, -3).
C21_Witness ==
    /\ ret.op = "analyze_video"
    /\ an.pc = "returned"
    /\ an.result = TRUE
    /\ reference_frame_idx = 1
    /\ an.bbox = <<20, 30, 10, 10>>
    /\ an.video.frames = <<<<0, 0>>, <<4, -3>>>>
    /\ TranslatedWithinMargin(1) /\ TranslatedWithinMargin(2)
    /\ offsets = <<<<8, -6>>, <<0, 0>>>>

\* The offset of a single full-frame match of the configured box's template,
\* cut from first_frame, in a frame: (0,0) when nothing matches.
OneShotOffset(first_content, content) ==
    LET t == ExtractTemplate(first_content, bounding_box)
        good == GoodLocations(content, t)
    IN  IF good = {} THEN <<0, 0>>
        ELSE LET loc == CHOOSE l \in good : TRUE
             IN  <<Center2(bounding_box)[1] - (2 * loc[1] + t.w),
                   Center2(bounding_box)[2] - (2 * loc[2] + t.h)>>

MarkerOf(box) == <<IntOfHalf(Center2(box)[1]), IntOfHalf(Center2(box)[2])>>

\* C24: after any sequence of calls, a reference centre that is set is the
\* centre of the configured box, and whenever preview_stabilization draws the
\* crosshair it draws it there: not at the box tracked in that frame, not at
\* the centre of an earlier box.
C24_MarkerAtReference ==
    /\ reference_center # NoneCenter =>
          /\ bounding_box # NoneBox
          /\ reference_center = Center2(bounding_box)
    /\ (ret.op = "preview_stabilization" /\ ret.val.marker # <<>>) =>
          /\ bounding_box # NoneBox
          /\ ret.val.marker = MarkerOf(bounding_box)
    /\ (ret.op = "preview_stabilization" /\ ret.val.kind = "frame") =>
          (ret.val.marker # <<>> <=> (ret.draw /\ bounding_box # NoneBox))

\* A preview of an analysed frame whose tracked box is not the configured
\* box: the frame is translated and the crosshair is at the configured box's
\* centre.
C24_Witness ==
    /\ ret.op = "preview_stabilization"
    /\ analyzed
    /\ ret.idx \in 0..(Len(offsets) - 1)
    /\ bounding_box = <<20, 30, 10, 10>>
    /\ tracking_boxes[ret.idx + 1] = <<24, 27, 10, 10>>
    /\ ret.val.off = <<-8, 6>>
    /\ ret.val.marker = <<25, 35>>

\* C28: for the offset of an analysed frame, preview_stabilization without
\* the marker returns what apply_stabilization returns in transparent border
\* mode: the input frame, or the same translated 4-channel frame, including
\* for offsets with a component of exactly half a pixel.
C28_Original ==
    (/\ ret.op = "preview_stabilization"
     /\ ~ret.draw
     /\ border_mode = "transparent"
     /\ analyzed
     /\ ret.idx \in 0..(Len(offsets) - 1)) =>
        ret.val.frame = ApplyStabilization(ret.frame, ret.idx).frame

\* The calls that only read the analysis.
ReadOnlyCalls == {"apply_stabilization", "get_offset", "get_tracked_box", "preview_stabilization"}

\* C29: after every call (and every iteration of analyze_video) the offset
\* list and the box list have the same length and is_analyzed implies that a
\* box is set; apply_stabilization, get_offset, get_tracked_box and
\* preview_stabilization leave the two lists and is_analyzed as they are.
C29_ListsInStep ==
    [][ /\ Len(offsets') = Len(tracking_boxes')
        /\ analyzed' => bounding_box' # NoneBox
        /\ ret'.op \in ReadOnlyCalls =>
              /\ offsets' = offsets
              /\ tracking_boxes' = tracking_boxes
              /\ analyzed' = analyzed
      ]_vars

\* A preview has translated a frame from the analysis of a two-frame clip,
\* and the analysis is still there.
C29_Witness ==
    /\ ret.op = "preview_stabilization"
    /\ ret.was = "Analyzed"
    /\ ret.val.source = "analysis"
    /\ ret.val.frame # ret.frame
    /\ analyzed
    /\ Len(offsets) = 2
    /\ Len(tracking_boxes) = 2

----------------------------------------------------------------------------
(* Claims about template matching, checked under SpecTrack *)

C26_Original ==
    ret.op = "track_frame" =>
        ret.search_region = <<ret.last_box[1] - ret.search_margin,
                              ret.last_box[2] - ret.search_margin,
                              ret.last_box[3] + 2 * ret.search_margin,
                              ret.last_box[4] + 2 * ret.search_margin>>

----------------------------------------------------------------------------
(* Claims about the stabilized export, checked under SpecBorder *)

\* The source position (doubled) that output pixel i of the cropped row shows.
SourcePos2(i) == 2 * ((IF ret.crop = <<>> THEN 0 ELSE ret.crop[1]) + i - 1) - ret.off2

\* C27: in the frame handed to the sink for a frame with a significant
\* offset, every pixel whose translated source position lies outside the
\* source frame has alpha 0, and every pixel whose source position lies
\* inside has the alpha of the keyer.
C27_Original ==
    (ret.op = "stabilized_sink" /\ ~Insignificant(<<ret.off2, 0>>)) =>
        /\ ret.stab_alpha # <<>>
        /\ \A i \in 1..Len(ret.val) :
              IF SourcePos2(i) < 0 \/ SourcePos2(i) > 2 * (BorderW - 1)
              THEN ret.val[i].a = 0
              ELSE ret.val[i].a = ret.rgba[i].a

----------------------------------------------------------------------------
(* Claims about the stacked-mask export, checked under SpecStacked *)

\* C25: process() with stacked_mask=True, a valid input and a writable .mp4
\* output path passes the path validation, opens the HEVC writer and writes
\* for the keyed frame a 3-channel frame of twice its height, colour times
\* alpha on top and alpha in all channels below.
C25_Original ==
    (/\ ret.op = "process"
     /\ ret.stacked_mask
     /\ ret.in_ok
     /\ ret.path.given /\ ret.path.parent_ok /\ ret.path.writable
     /\ ret.path.suffix = ".mp4") =>
        /\ ret.val.outcome = "written"
        /\ ret.val.writer.codec = "libx265"
        /\ ret.val.writer.height_factor = 2
        /\ ret.val.stacked = <<StackFrame(ret.rgba)>>

----------------------------------------------------------------------------
(* Claims about cancel() between jobs, checked under SpecCancel *)

\* C30: a job returns False only if cancel() was called while that job was
\* running, and a cancel() that finds no job running leaves the event as it is.
C30_Original ==
    [][ /\ job'[1].outcome = "False" => job'[1].cancelled
        /\ (~InCancel /\ ret' # ret /\ ret'.op = "cancel" /\ ret'.pc = "returned") =>
              cancel_event' = cancel_event
      ]_vars

====
